---------------------------- MODULE Spec2Model ----------------------------
(***************************************************************************)
(* Model of the markdown-to-Google-Docs core of internal/cmd/docs.go:      *)
(* DocsWriteCmd.Run, DocsAppendCmd.Run, clearDocsContent and               *)
(* writeMarkdownToDoc, together with the document store they call.        *)
(*                                                                         *)
(* A Go string is modelled as a sequence of characters (runes); every      *)
(* character has a UTF-8 byte length and a UTF-16 code-unit length.  The   *)
(* markers the code searches for are ASCII, so positions found by          *)
(* strings.Index slice a string at the same place whether they are counted *)
(* in bytes or in characters.  Strings that are not valid UTF-8 are not    *)
(* modelled.                                                               *)
(***************************************************************************)
EXTENDS Integers, Sequences, FiniteSets, TLC

(***************************************************************************)
(* Characters                                                              *)
(***************************************************************************)
NL == "\n"
CR == "\r"
\* U+00E9 (2 bytes in UTF-8, 1 UTF-16 unit) and U+1F600 (4 bytes, 2 units).
EAcute == "U00E9"
Emoji == "U1F600"
Digits == {"0", "1", "2", "3", "4", "5", "6", "7", "8", "9"}

\* The rune value test of utf16CodeUnitCount: r >= 0x10000.
IsNonBMP(c) == c = Emoji

\* Bytes of one character in the UTF-8 encoding Go strings use.
RuneLen(c) == IF c = Emoji THEN 4 ELSE IF c = EAcute THEN 2 ELSE 1

RECURSIVE ByteLen(_)
\* len(s) of a Go string: its number of bytes.
ByteLen(s) == IF s = <<>> THEN 0 ELSE RuneLen(Head(s)) + ByteLen(Tail(s))

RECURSIVE CountFrom(_, _)
CountFrom(s, count) ==
    IF s = <<>> THEN count
    ELSE CountFrom(Tail(s), IF IsNonBMP(Head(s)) THEN count + 2 ELSE count + 1)

\* A variant of utf16CodeUnitCount that counts code points.
runeCount(s) == Len(s)

\* utf16CodeUnitCount: 2 for a rune >= 0x10000, 1 for any other rune.
utf16CodeUnitCount(s) == CountFrom(s, 0)

(***************************************************************************)
(* The strings package                                                     *)
(***************************************************************************)
\* A sequence given as a function on 1..n, as a sequence value.
AsSeq(f) == f \o <<>>

Take(s, n) == SubSeq(s, 1, n)
Drop(s, n) == SubSeq(s, n + 1, Len(s))

HasPrefix(s, p) == Len(s) >= Len(p) /\ Take(s, Len(p)) = p

\* strings.TrimPrefix
TrimPrefix(s, p) == IF HasPrefix(s, p) THEN Drop(s, Len(p)) ELSE s

\* strings.Index: the position (from 0) of the first occurrence, or -1.
Index(s, sub) ==
    LET hits == {i \in 0..(Len(s) - Len(sub)) : SubSeq(s, i + 1, i + Len(sub)) = sub}
    IN  IF hits = {} THEN -1 ELSE CHOOSE i \in hits : \A j \in hits : i <= j

\* unicode.IsSpace, on the characters of the model.
IsSpace(c) == c \in {" ", "\t", NL, CR}

RECURSIVE TrimLeftSpace(_)
TrimLeftSpace(s) ==
    IF s # <<>> /\ IsSpace(Head(s)) THEN TrimLeftSpace(Tail(s)) ELSE s

RECURSIVE TrimRightSpace(_)
TrimRightSpace(s) ==
    IF s # <<>> /\ IsSpace(s[Len(s)]) THEN TrimRightSpace(Take(s, Len(s) - 1)) ELSE s

\* strings.TrimSpace
TrimSpace(s) == TrimRightSpace(TrimLeftSpace(s))

RECURSIVE TrimRightCR(_)
\* strings.TrimRight(line, "\r")
TrimRightCR(s) ==
    IF s # <<>> /\ s[Len(s)] = CR THEN TrimRightCR(Take(s, Len(s) - 1)) ELSE s

\* The positions lo..hi of s that hold character c, in increasing order.
PositionsOf(s, c, lo, hi) ==
    LET Holds(k) == s[k] = c
    IN  SelectSeq(AsSeq([k \in 1..(hi - lo + 1) |-> lo + k - 1]), Holds)

\* A variant of Split that yields no empty line after a final newline.
SplitNoTrailing(s) ==
    LET nl == PositionsOf(s, NL, 1, Len(s))
        from(k) == IF k = 1 THEN 1 ELSE nl[k - 1] + 1
        to(k) == IF k = Len(nl) + 1 THEN Len(s) ELSE nl[k] - 1
        n == IF Len(nl) > 0 /\ nl[Len(nl)] = Len(s) THEN Len(nl) ELSE Len(nl) + 1
    IN  AsSeq([k \in 1..n |-> SubSeq(s, from(k), to(k))])

\* strings.Split(markdown, "\n"): the texts between the newlines, always at
\* least one line.
Split(s) ==
    LET nl == PositionsOf(s, NL, 1, Len(s))
        from(k) == IF k = 1 THEN 1 ELSE nl[k - 1] + 1
        to(k) == IF k = Len(nl) + 1 THEN Len(s) ELSE nl[k] - 1
    IN  AsSeq([k \in 1..(Len(nl) + 1) |-> SubSeq(s, from(k), to(k))])

RECURSIVE ConcatRange(_, _, _)
ConcatRange(ss, lo, hi) ==
    IF lo > hi THEN <<>>
    ELSE IF lo = hi THEN ss[lo]
    ELSE ConcatRange(ss, lo, (lo + hi) \div 2) \o ConcatRange(ss, (lo + hi) \div 2 + 1, hi)

\* The strings of a sequence, joined in order.
Concat(ss) == ConcatRange(ss, 1, Len(ss))

RECURSIVE Offsets(_, _, _, _)
\* The value of a counter before each of the steps lo..hi, when it is base
\* before step lo and step k adds ns[k] to it.
Offsets(ns, lo, hi, base) ==
    IF lo > hi THEN <<>>
    ELSE IF lo = hi THEN <<base>>
    ELSE LET mid == (lo + hi) \div 2
             left == Offsets(ns, lo, mid, base)
         IN  left \o Offsets(ns, mid + 1, hi, left[Len(left)] + ns[mid])

(***************************************************************************)
(* The inline bold/italic scan of writeMarkdownToDoc                       *)
(***************************************************************************)
BoldMark == <<"*", "*">>
ItalicMark == <<"*">>

formatRange(start, end, bold, italic) ==
    [start |-> start, end |-> end, bold |-> bold, italic |-> italic]

\* The state of the loop before its first iteration.
ScanInit(text) ==
    [tempText |-> text, cleanText |-> <<>>, currentOffset |-> 0,
     ranges |-> <<>>, done |-> FALSE]

\* A variant of ScanBold that drops an opening marker that is never closed.
ScanBoldDropsMarker(st, boldStart) ==
    LET beforeBold == Take(st.tempText, boldStart)
        clean1 == st.cleanText \o beforeBold
        off1 == st.currentOffset + utf16CodeUnitCount(beforeBold)
        temp1 == Drop(st.tempText, boldStart + 2)
        boldEnd == Index(temp1, <<"*", "*">>)
        innerText == Take(temp1, boldEnd)
    IN  IF boldEnd # -1
        THEN [st EXCEPT !.tempText = Drop(temp1, boldEnd + 2),
                        !.cleanText = clean1 \o innerText,
                        !.currentOffset = off1 + utf16CodeUnitCount(innerText),
                        !.ranges = Append(@, formatRange(off1,
                                      off1 + utf16CodeUnitCount(innerText), TRUE, FALSE))]
        ELSE [st EXCEPT !.tempText = temp1,
                        !.cleanText = clean1,
                        !.currentOffset = off1]

\* The bold branch of one iteration.
ScanBold(st, boldStart) ==
    LET beforeBold == Take(st.tempText, boldStart)
        clean1 == st.cleanText \o beforeBold
        off1 == st.currentOffset + utf16CodeUnitCount(beforeBold)
        temp1 == Drop(st.tempText, boldStart + 2)
        boldEnd == Index(temp1, BoldMark)
        innerText == Take(temp1, boldEnd)
    IN  IF boldEnd # -1
        THEN [st EXCEPT !.tempText = Drop(temp1, boldEnd + 2),
                        !.cleanText = clean1 \o innerText,
                        !.currentOffset = off1 + utf16CodeUnitCount(innerText),
                        !.ranges = Append(@, formatRange(off1,
                                      off1 + utf16CodeUnitCount(innerText), TRUE, FALSE))]
        ELSE [st EXCEPT !.tempText = temp1,
                        !.cleanText = clean1 \o BoldMark,
                        !.currentOffset = off1 + 2]

\* A variant of ScanItalic that leaves an opening marker that is never
\* closed in the text still to scan.
ScanItalicKeepsMarker(st, italicStart) ==
    LET beforeItalic == Take(st.tempText, italicStart)
        clean1 == st.cleanText \o beforeItalic
        off1 == st.currentOffset + utf16CodeUnitCount(beforeItalic)
        temp1 == Drop(st.tempText, italicStart + 1)
        italicEnd == Index(temp1, ItalicMark)
        innerText == Take(temp1, italicEnd)
    IN  IF italicEnd # -1
        THEN [st EXCEPT !.tempText = Drop(temp1, italicEnd + 1),
                        !.cleanText = clean1 \o innerText,
                        !.currentOffset = off1 + utf16CodeUnitCount(innerText),
                        !.ranges = Append(@, formatRange(off1,
                                      off1 + utf16CodeUnitCount(innerText), FALSE, TRUE))]
        ELSE [st EXCEPT !.tempText = Drop(st.tempText, italicStart),
                        !.cleanText = clean1,
                        !.currentOffset = off1]

\* The italic branch of one iteration.
ScanItalic(st, italicStart) ==
    LET beforeItalic == Take(st.tempText, italicStart)
        clean1 == st.cleanText \o beforeItalic
        off1 == st.currentOffset + utf16CodeUnitCount(beforeItalic)
        temp1 == Drop(st.tempText, italicStart + 1)
        italicEnd == Index(temp1, ItalicMark)
        innerText == Take(temp1, italicEnd)
    IN  IF italicEnd # -1
        THEN [st EXCEPT !.tempText = Drop(temp1, italicEnd + 1),
                        !.cleanText = clean1 \o innerText,
                        !.currentOffset = off1 + utf16CodeUnitCount(innerText),
                        !.ranges = Append(@, formatRange(off1,
                                      off1 + utf16CodeUnitCount(innerText), FALSE, TRUE))]
        ELSE [st EXCEPT !.tempText = temp1,
                        !.cleanText = clean1 \o ItalicMark,
                        !.currentOffset = off1 + 1]

\* A variant of ScanStep that takes the first "*" as an italic delimiter
\* also where a "**" stands.
ScanStepItalicFirst(st) ==
    LET boldStart == Index(st.tempText, BoldMark)
        italicStart == Index(st.tempText, ItalicMark)
    IN  IF boldStart = -1 /\ italicStart = -1
        THEN [st EXCEPT !.cleanText = @ \o st.tempText, !.done = TRUE]
        ELSE IF italicStart # -1
        THEN ScanItalic(st, italicStart)
        ELSE ScanBold(st, boldStart)

\* One iteration of the for loop.
ScanStep(st) ==
    LET boldStart == Index(st.tempText, BoldMark)
        italicStart == Index(st.tempText, ItalicMark)
    IN  IF boldStart = -1 /\ italicStart = -1
        THEN [st EXCEPT !.cleanText = @ \o st.tempText, !.done = TRUE]
        ELSE IF boldStart # -1 /\ (italicStart = -1 \/ boldStart <= italicStart)
        THEN ScanBold(st, boldStart)
        ELSE IF italicStart # -1
        THEN ScanItalic(st, italicStart)
        ELSE st

RECURSIVE ScanRun(_)
ScanRun(st) == IF st.done THEN st ELSE ScanRun(ScanStep(st))

\* The whole loop on a line's remaining text.
ParseInline(text) == ScanRun(ScanInit(text))

(***************************************************************************)
(* The line tokenizer of writeMarkdownToDoc                                *)
(***************************************************************************)
segment(text, style, isBullet, isNumbered, ranges) ==
    [text |-> text, style |-> style, isBullet |-> isBullet,
     isNumbered |-> isNumbered, ranges |-> ranges]

H3Prefix == <<"#", "#", "#", " ">>
H2Prefix == <<"#", "#", " ">>
H1Prefix == <<"#", " ">>

\* The heading switch: the style, and the text left for the list check.
HeadingOf(line, trimmed) ==
    IF HasPrefix(trimmed, H3Prefix)
    THEN [style |-> "HEADING_3", text |-> TrimPrefix(line, H3Prefix)]
    ELSE IF HasPrefix(trimmed, H2Prefix)
    THEN [style |-> "HEADING_2", text |-> TrimPrefix(line, H2Prefix)]
    ELSE IF HasPrefix(trimmed, H1Prefix)
    THEN [style |-> "HEADING_1", text |-> TrimPrefix(line, H1Prefix)]
    ELSE [style |-> "NORMAL_TEXT", text |-> line]

\* A variant of ListOf that looks for list markers whatever the style.
ListOfAnyStyle(style, text) ==
    IF HasPrefix(text, <<"-", " ">>) \/ HasPrefix(text, <<"*", " ">>)
    THEN [isBullet |-> TRUE, isNumbered |-> FALSE, text |-> Drop(text, 2)]
    ELSE IF Len(text) >= 3 /\ text[1] \in Digits /\ text[2] = "." /\ text[3] = " "
    THEN [isBullet |-> FALSE, isNumbered |-> TRUE, text |-> Drop(text, 3)]
    ELSE [isBullet |-> FALSE, isNumbered |-> FALSE, text |-> text]

\* The list check, for NORMAL_TEXT only.  text[0], text[1], text[2] are bytes;
\* the three tested values are ASCII, so they are the first three characters.
ListOf(style, text) ==
    IF style # "NORMAL_TEXT"
    THEN [isBullet |-> FALSE, isNumbered |-> FALSE, text |-> text]
    ELSE IF HasPrefix(text, <<"-", " ">>) \/ HasPrefix(text, <<"*", " ">>)
    THEN [isBullet |-> TRUE, isNumbered |-> FALSE, text |-> Drop(text, 2)]
    ELSE IF Len(text) >= 3 /\ text[1] \in Digits /\ text[2] = "." /\ text[3] = " "
    THEN [isBullet |-> FALSE, isNumbered |-> TRUE, text |-> Drop(text, 3)]
    ELSE [isBullet |-> FALSE, isNumbered |-> FALSE, text |-> text]

\* A variant of SegmentOf for which "---" is a line of text.
SegmentOfNoRule(rawLine) ==
    LET line == TrimRightCR(rawLine)
        trimmed == TrimSpace(line)
    IN  IF trimmed = <<>>
        THEN segment(<<NL>>, "NORMAL_TEXT", FALSE, FALSE, <<>>)
        ELSE LET h == HeadingOf(line, trimmed)
                 l == ListOf(h.style, h.text)
                 p == ParseInline(l.text)
             IN  segment(p.cleanText \o <<NL>>, h.style, l.isBullet, l.isNumbered,
                         p.ranges)

\* The body of the loop over lines: the segment of one line.
SegmentOf(rawLine) ==
    LET line == TrimRightCR(rawLine)
        trimmed == TrimSpace(line)
    IN  IF trimmed = <<>> \/ trimmed = <<"-", "-", "-">>
        THEN segment(<<NL>>, "NORMAL_TEXT", FALSE, FALSE, <<>>)
        ELSE LET h == HeadingOf(line, trimmed)
                 l == ListOf(h.style, h.text)
                 p == ParseInline(l.text)
             IN  segment(p.cleanText \o <<NL>>, h.style, l.isBullet, l.isNumbered,
                         p.ranges)

\* The segments of a markdown text, one per line.
Segments(markdown) ==
    LET lines == Split(markdown)
    IN  AsSeq([k \in 1..Len(lines) |-> SegmentOf(lines[k])])

\* fullText: the blob inserted in one edit.
FullText(segments) == Concat(AsSeq([k \in 1..Len(segments) |-> segments[k].text]))


(***************************************************************************)
(* The edit requests of writeMarkdownToDoc and clearDocsContent            *)
(***************************************************************************)
\* One docs.Request.  arg is the named style, the bullet preset or the
\* Fields of a text style; text is the inserted text.
Request(kind, start, end, arg, text) ==
    [kind |-> kind, start |-> start, end |-> end, arg |-> arg, text |-> text]

\* Google Docs API has a limit of 50 requests per batchUpdate call.
batchSize == 50

\* segLen := int64(len(seg.text)): the segment's length in bytes.
SegLen(seg) == ByteLen(seg.text)

\* strings.Join(fields, ",") of an emphasis range.
FieldsOf(r) ==
    IF r.bold /\ r.italic THEN "bold,italic"
    ELSE IF r.bold THEN "bold"
    ELSE IF r.italic THEN "italic"
    ELSE ""

\* A variant of SegmentRequests that styles the NORMAL_TEXT paragraphs too.
SegmentRequestsAllStyles(seg, paraStartIdx) ==
    LET paraEndIdx == paraStartIdx + SegLen(seg)
        para == <<Request("UpdateParagraphStyle", paraStartIdx, paraEndIdx, seg.style, <<>>)>>
        list == IF seg.isBullet
                THEN <<Request("CreateParagraphBullets", paraStartIdx, paraEndIdx,
                               "BULLET_DISC_CIRCLE_SQUARE", <<>>)>>
                ELSE IF seg.isNumbered
                THEN <<Request("CreateParagraphBullets", paraStartIdx, paraEndIdx,
                               "NUMBERED_DECIMAL_NESTED", <<>>)>>
                ELSE <<>>
        text == AsSeq([k \in 1..Len(seg.ranges) |->
                    Request("UpdateTextStyle", paraStartIdx + seg.ranges[k].start,
                            paraStartIdx + seg.ranges[k].end,
                            FieldsOf(seg.ranges[k]), <<>>)])
    IN  para \o list \o text

\* The style requests of one segment whose paragraph starts at paraStartIdx.
SegmentRequests(seg, paraStartIdx) ==
    LET paraEndIdx == paraStartIdx + SegLen(seg)
        para == IF seg.style # "" /\ seg.style # "NORMAL_TEXT"
                THEN <<Request("UpdateParagraphStyle", paraStartIdx, paraEndIdx,
                               seg.style, <<>>)>>
                ELSE <<>>
        list == IF seg.isBullet
                THEN <<Request("CreateParagraphBullets", paraStartIdx, paraEndIdx,
                               "BULLET_DISC_CIRCLE_SQUARE", <<>>)>>
                ELSE IF seg.isNumbered
                THEN <<Request("CreateParagraphBullets", paraStartIdx, paraEndIdx,
                               "NUMBERED_DECIMAL_NESTED", <<>>)>>
                ELSE <<>>
        text == AsSeq([k \in 1..Len(seg.ranges) |->
                    Request("UpdateTextStyle", paraStartIdx + seg.ranges[k].start,
                            paraStartIdx + seg.ranges[k].end,
                            FieldsOf(seg.ranges[k]), <<>>)])
    IN  para \o list \o text

\* paraStartIdx of every segment: idx starts at startIdx and advances by the
\* segLen of each segment passed.
ParaStarts(segments, idx) ==
    LET lens == AsSeq([k \in 1..Len(segments) |-> SegLen(segments[k])])
    IN  Offsets(lens, 1, Len(segments), idx)

\* styleRequests, in the order the loop over segments appends them.
StyleRequests(segments, startIdx) ==
    LET starts == ParaStarts(segments, startIdx)
    IN  Concat(AsSeq([k \in 1..Len(segments) |-> SegmentRequests(segments[k], starts[k])]))

\* The insertion request: the whole blob at startIdx.
InsertRequest(segments, startIdx) ==
    Request("InsertText", startIdx, startIdx, "", FullText(segments))

\* A variant of Batch whose end is one request too far.
BatchOneMore(styleRequests, i) ==
    LET end == IF i + batchSize + 1 > Len(styleRequests) THEN Len(styleRequests)
               ELSE i + batchSize + 1
    IN  SubSeq(styleRequests, i + 1, end)

\* styleRequests[i:end] of the batch loop.
Batch(styleRequests, i) ==
    LET end == IF i + batchSize > Len(styleRequests) THEN Len(styleRequests)
               ELSE i + batchSize
    IN  SubSeq(styleRequests, i + 1, end)

\* A variant of DeleteRequest that deletes through the final newline.
DeleteRequestToEnd(endIndex) ==
    Request("DeleteContentRange", 1, endIndex, "", <<>>)

\* The delete request of clearDocsContent: [1, endIndex - 1).
DeleteRequest(endIndex) ==
    Request("DeleteContentRange", 1, endIndex - 1, "", <<>>)

(***************************************************************************)
(* The document store (Documents.Get, Documents.BatchUpdate).  A document  *)
(* is its body text as a sequence of UTF-16 code units, index 1 being the  *)
(* first, each with the styles applied to it; its last unit is the         *)
(* mandatory final newline.  Inserted text takes no style from its         *)
(* neighbours.                                                             *)
(***************************************************************************)
Units(c) == IF IsNonBMP(c) THEN <<"D83D", "DE00">> ELSE <<c>>

\* The UTF-16 code units of a string.
UnitsOf(s) == Concat(AsSeq([k \in 1..Len(s) |-> Units(s[k])]))

Cell(u, para, list, bold, italic) ==
    [u |-> u, para |-> para, list |-> list, bold |-> bold, italic |-> italic]

PlainCells(s) ==
    LET us == UnitsOf(s)
    IN  AsSeq([k \in 1..Len(us) |-> Cell(us[k], "NORMAL_TEXT", "", FALSE, FALSE)])

\* The text of a document, as code units.
DocText(d) == AsSeq([k \in 1..Len(d) |-> d[k].u])

\* The end index of the body: one past the final newline.
EndOfDoc(d) == Len(d) + 1

\* Body.Content as Get returns it: the section break that ends at index 1,
\* then one element per paragraph, each with its EndIndex.
Content(d) ==
    LET ends == PositionsOf(DocText(d), NL, 1, Len(d))
    IN  <<[EndIndex |-> 1]>> \o AsSeq([n \in 1..Len(ends) |-> [EndIndex |-> ends[n] + 1]])

\* Whether the store accepts a request on a document whose end index is
\* endOfDoc: its indexes lie in the body, and a delete leaves the final
\* newline.
ValidRequest(endOfDoc, r) ==
    IF r.kind = "InsertText" THEN r.start >= 1 /\ r.start <= endOfDoc
    ELSE IF r.kind = "DeleteContentRange"
    THEN r.start >= 1 /\ r.start <= r.end /\ r.end < endOfDoc
    ELSE r.start >= 1 /\ r.start <= r.end /\ r.end <= endOfDoc

\* By how much a request changes the length of the body.
Growth(r) ==
    IF r.kind = "InsertText" THEN Len(UnitsOf(r.text))
    ELSE IF r.kind = "DeleteContentRange" THEN r.start - r.end
    ELSE 0

StyleKinds == {"UpdateParagraphStyle", "CreateParagraphBullets", "UpdateTextStyle"}

RECURSIVE ParaStartOf(_, _)
\* The index of the first code unit of the paragraph that holds index k.
ParaStartOf(d, k) == IF k <= 1 \/ d[k - 1].u = NL THEN k ELSE ParaStartOf(d, k - 1)

RECURSIVE ParaEndOf(_, _)
\* The index of the newline that ends the paragraph that holds index k.
ParaEndOf(d, k) == IF k >= Len(d) \/ d[k].u = NL THEN k ELSE ParaEndOf(d, k + 1)

\* The cells of the paragraphs that overlap the range of request r, as a
\* pair of indexes.  A paragraph runs up to and including its newline; an
\* empty range overlaps none.
InParagraphs(d, r) ==
    IF r.start >= r.end THEN <<1, 0>>
    ELSE <<ParaStartOf(d, r.start), ParaEndOf(d, r.end - 1)>>

\* Whether cell k lies in the range of request r.
InRange(r, k) == k >= r.start /\ k < r.end

\* The effect of one style request, which does not change the text: the
\* paragraphs it reaches take the named style or the bullet preset, the
\* code units it covers become bold or italic.  None when the store refuses
\* it.
ApplyStyle(d, r) ==
    LET span == InParagraphs(d, r)
        restyled(k) ==
            IF r.kind = "UpdateParagraphStyle" THEN [d[k] EXCEPT !.para = r.arg]
            ELSE IF r.kind = "CreateParagraphBullets" THEN [d[k] EXCEPT !.list = r.arg]
            ELSE [d[k] EXCEPT
                     !.bold = @ \/ (r.arg \in {"bold", "bold,italic"} /\ InRange(r, k)),
                     !.italic = @ \/ (r.arg \in {"italic", "bold,italic"} /\ InRange(r, k))]
    IN  IF ~ValidRequest(EndOfDoc(d), r) \/ span[1] > span[2] THEN d
        ELSE Take(d, span[1] - 1)
                 \o AsSeq([k \in 1..(span[2] - span[1] + 1) |-> restyled(span[1] + k - 1)])
                 \o Drop(d, span[2])

RECURSIVE ApplyStyles(_, _, _, _)
\* The style requests lo..hi of rs, applied in order: a paragraph keeps the
\* style and the preset of the last request that reaches it.
ApplyStyles(d, rs, lo, hi) ==
    IF lo > hi THEN d
    ELSE IF lo = hi THEN ApplyStyle(d, rs[lo])
    ELSE LET half == ApplyStyles(d, rs, lo, (lo + hi) \div 2)
         IN  IF Len(half) = Len(d) THEN ApplyStyles(half, rs, (lo + hi) \div 2 + 1, hi) ELSE d

\* The effect of one request: none when the store refuses it.
ApplyRequest(d, r) ==
    IF ~ValidRequest(EndOfDoc(d), r) THEN d
    ELSE IF r.kind = "InsertText"
    THEN Take(d, r.start - 1) \o PlainCells(r.text) \o Drop(d, r.start - 1)
    ELSE IF r.kind = "DeleteContentRange"
    THEN Take(d, r.start - 1) \o Drop(d, r.end - 1)
    ELSE ApplyStyle(d, r)

RECURSIVE ApplyRange(_, _, _, _)
ApplyRange(d, rs, lo, hi) ==
    IF lo > hi THEN d
    ELSE IF lo = hi THEN ApplyRequest(d, rs[lo])
    ELSE ApplyRange(ApplyRange(d, rs, lo, (lo + hi) \div 2), rs, (lo + hi) \div 2 + 1, hi)

\* The requests of one batchUpdate, applied in order.
ApplyAll(d, rs) ==
    IF \A j \in 1..Len(rs) : rs[j].kind \in StyleKinds
    THEN ApplyStyles(d, rs, 1, Len(rs))
    ELSE ApplyRange(d, rs, 1, Len(rs))

\* A batch is accepted when each request is valid on the document the ones
\* before it leave.
ValidAll(d, rs) ==
    LET growth == AsSeq([k \in 1..Len(rs) |-> Growth(rs[k])])
        ends == Offsets(growth, 1, Len(rs), EndOfDoc(d))
    IN  \A k \in 1..Len(rs) : ValidRequest(ends[k], rs[k])

(***************************************************************************)
(* Bounds and inputs                                                       *)
(***************************************************************************)
\* Longest markdown text enumerated character by character.
MaxLen == 2
\* Longest line enumerated for the inline scan.
MaxLineLen == 5
\* Commands run one after the other on the document.
MaxRuns == 2
\* Style batches the longest repeated input fills completely.
MaxBatches == 1
\* Longest text enumerated after the marker a line begins with.
MaxBodyLen == 2
\* Most text runs in an enumerated paragraph that cat reads.
MaxTextRuns == 2
\* Largest byte limit given to cat.
MaxMaxBytes == 7

Seqs(S, n) == UNION {[1..k -> S] : k \in 0..n}

ProcChars == {"a", "*", "#", " ", NL}
ScanChars == {"a", "*", EAcute, Emoji}

\* "# Title\n\nBody **bold** text" and other texts of the documentation.
ExampleTitle ==
    <<"#", " ", "T", "i", "t", "l", "e", NL, NL, "B", "o", "d", "y", " ", "*", "*",
      "b", "o", "l", "d", "*", "*", " ", "t", "e", "x", "t">>
ExampleBody ==
    <<"B", "o", "d", "y", " ", "*", "*", "b", "o", "l", "d", "*", "*", " ", "t", "e", "x", "t">>
ExampleItems ==
    <<"-", " ", "i", "t", "e", "m", " ", "o", "n", "e", NL,
      "-", " ", "i", "t", "e", "m", " ", "t", "w", "o">>
ExampleUnterminated == <<"a", " ", "*", "*", "b">>
ExampleEmoji == <<Emoji, " ", "*", "*", "b", "*", "*">>
Examples ==
    {ExampleTitle, ExampleItems, ExampleUnterminated, ExampleEmoji,
     <<"#", " ", EAcute>>, <<EAcute, NL, "#", " ", "a">>,
     <<EAcute, EAcute, NL, "*", "*", "a", "*", "*">>,
     <<"1", ".", " ", "*", "a", "*">>, <<"*", "*", "*", "*">>,
     <<"#", " ", "a">>, <<"*", " ", "a">>, <<"*", "a", "*">>, <<"a", NL, NL, "a">>,
     <<"*", "*", "a", "*", "*", NL, "#", "#", " ", "a">>,
     <<"#", " ", "a", NL, "-", " ", "a", NL, "1", ".", " ", "a", NL, "a">>}

\* n bullet lines "- ", joined by newlines: n style requests.
RepLines(n) ==
    AsSeq([k \in 1..(3 * n - 1) |-> IF k % 3 = 1 THEN "-" ELSE IF k % 3 = 2 THEN " " ELSE NL])

RepCounts == {batchSize * b + d : b \in 1..MaxBatches, d \in {0, 1}}
RepInputs == {RepLines(n) : n \in RepCounts}

Inputs == Seqs(ProcChars, MaxLen) \cup Examples \cup RepInputs

\* What a line begins with: heading, list and rule markers, well formed or
\* not, with and without white space before them.
LinePrefixes ==
    {<<>>, <<" ">>, <<"\t">>,
     <<"#", " ">>, <<"#", "#", " ">>, <<"#", "#", "#", " ">>, <<"#", "#", "#", "#", " ">>,
     <<"#">>, <<"#", "#">>, <<"#", "a">>,
     <<" ", "#", " ">>, <<" ", " ", "#", "#", " ">>, <<"\t", "#", "#", "#", " ">>,
     <<"#", " ", "-", " ">>, <<"#", "#", " ", "*", " ">>, <<"#", " ", "1", ".", " ">>,
     <<"#", " ", "#", " ">>,
     <<"-", " ">>, <<"*", " ">>, <<" ", "-", " ">>, <<"-">>, <<"-", "a">>,
     <<"-", " ", "#", " ">>, <<"-", " ", "-", " ">>,
     <<"1", ".", " ">>, <<"9", ".", " ">>, <<"0", ".", " ">>, <<"1", "0", ".", " ">>,
     <<"1", ".">>, <<"1", " ">>, <<"a", ".", " ">>, <<" ", "1", ".", " ">>,
     <<"1", ".", " ", "-", " ">>,
     <<"-", "-", "-">>, <<" ", "-", "-", "-", " ">>, <<"-", "-">>, <<"-", "-", "-", "-">>,
     <<"-", "-", "-", CR>>, <<"-", "-", " ", "-">>}
BodyChars == {"a", "*", " ", CR}
ExampleItemOne == <<"-", " ", "i", "t", "e", "m", " ", "o", "n", "e">>
ExampleTen == <<"1", "0", ".", " ", "x">>
TokLines ==
    {p \o b : p \in LinePrefixes, b \in Seqs(BodyChars, MaxBodyLen)}
        \cup {ExampleItemOne, ExampleTen}

\* Lines with more than one emphasis span.
ExampleSpans ==
    {<<"*", "a", "*", "*", "a", "*">>,
     <<"*", "*", "a", "*", "*", "*", "b", "*">>,
     <<"*", "*", Emoji, "*", "*", " ", "*", EAcute, "*", " ", "*", "*", "a", "*", "*">>,
     <<"*", "*", "*", "*", "*", "a", "*">>}
ScanLines ==
    Seqs(ScanChars, MaxLineLen)
        \cup {ExampleBody, ExampleUnterminated, ExampleEmoji} \cup ExampleSpans

\* Documents the commands start from: the empty document, and documents
\* with text, the second with styles on its paragraphs.
InitDocs ==
    {PlainCells(<<NL>>),
     PlainCells(<<"x", NL>>),
     <<Cell("x", "HEADING_1", "", TRUE, FALSE), Cell(NL, "HEADING_1", "", FALSE, FALSE),
       Cell("y", "NORMAL_TEXT", "BULLET_DISC_CIRCLE_SQUARE", FALSE, FALSE),
       Cell(NL, "NORMAL_TEXT", "BULLET_DISC_CIRCLE_SQUARE", FALSE, TRUE)>>}

DocID == "doc1"

(***************************************************************************)
(* State                                                                   *)
(***************************************************************************)
VARIABLES
    doc,            \* the stored document
    exists,         \* whether DocID names a Google Doc
    markdown,       \* the input read by readInput
    cmd,            \* the command of the current run: "write" or "append"
    pc,             \* where the run stands
    endIndex,       \* endIndex of clearDocsContent
    startIdx,       \* startIdx of writeMarkdownToDoc
    styleRequests,  \* styleRequests of writeMarkdownToDoc
    i,              \* i of the batch loop
    calls,          \* the calls the run has made to the store, in order
    result,         \* what Run returned
    docBefore,      \* the document when the run began
    prev,           \* the run before this one: command, result, document left
    runs,           \* runs begun
    line,           \* the text given to the inline scan
    scan,           \* the state of the inline scan loop
    seg,            \* the segment the loop over lines is building from line
    inv,            \* the invocations that run at the same time
    cat             \* the state of docsPlainText: the buffer and what is left

procVars ==
    <<doc, exists, markdown, cmd, pc, endIndex, startIdx, styleRequests, i, calls,
      result, docBefore, prev, runs>>
scanVars == <<line, scan>>
auxVars == <<seg, inv, cat>>
vars == <<procVars, scanVars, auxVars>>

\* The values of seg, inv and cat where they play no part.
NoSeg == [phase |-> "none", text |-> <<>>, s |-> segment(<<>>, "", FALSE, FALSE, <<>>)]
NoInv == <<>>
NoCat == [maxBytes |-> 0, text |-> <<>>, todo |-> <<>>, buf |-> <<>>, more |-> FALSE]
AuxIdle == seg = NoSeg /\ inv = NoInv /\ cat = NoCat

NoResult == [status |-> "none", msg |-> <<>>]
Ok(msg) == [status |-> "ok", msg |-> msg]
Err(msg) == [status |-> "error", msg |-> msg]

\* The error text of a failed call to the store.
ApiError(outcome) ==
    CASE outcome = "notfound" -> "googleapi: Error 404: Requested entity was not found."
      [] outcome = "invalid" -> "googleapi: Error 400: Invalid requests"
      [] OTHER -> "transport error"

\* isDocsNotFound: a googleapi error with code 404.
isDocsNotFound(outcome) == outcome = "notfound"

\* What a Get may answer.
GetOutcomes == IF exists THEN {"ok", "transport"} ELSE {"notfound", "transport"}

\* What a BatchUpdate may answer: a batch with an out-of-range request is
\* refused, any batch may fail in transport.
BatchOutcomes(d, rs) == IF ValidAll(d, rs) THEN {"ok", "transport"} ELSE {"invalid"}

GetCall(outcome) == [op |-> "get", requests |-> <<>>, outcome |-> outcome]
BatchCall(rs, outcome) == [op |-> "batchUpdate", requests |-> rs, outcome |-> outcome]

\* A variant of MaxEndIndex that reads the first element only.
MaxEndIndexFirst(content, acc) ==
    IF content = <<>> THEN acc ELSE content[1].EndIndex

\* The loop of clearDocsContent: the largest EndIndex of the body that is
\* greater than the initial value acc of endIndex, else acc.
MaxEndIndex(content, acc) ==
    LET all == {content[k].EndIndex : k \in 1..Len(content)} \cup {acc}
    IN  CHOOSE m \in all : \A n \in all : n <= m

\* A variant of AppendEndIndex that reads the first element.
AppendEndIndexFirst(content) ==
    IF Len(content) > 0 THEN content[1].EndIndex ELSE 1

\* endIndex of DocsAppendCmd.Run: the last element's EndIndex, 1 for no body.
AppendEndIndex(content) ==
    IF Len(content) > 0 THEN content[Len(content)].EndIndex ELSE 1

\* Whether clearDocsContent issues its delete.
ClearDeletes(content) == Len(content) # 0 /\ MaxEndIndex(content, 0) > 2

\* What every run sets when it begins.
Begin(c) ==
    /\ pc \in {"idle", "done"}
    /\ runs < MaxRuns
    /\ runs' = runs + 1
    /\ cmd' = c
    /\ prev' = [cmd |-> cmd, result |-> result, doc |-> doc]
    /\ docBefore' = doc
    /\ styleRequests' = <<>>
    /\ i' = 0

Init ==
    /\ doc \in InitDocs
    /\ exists \in BOOLEAN
    /\ markdown \in Inputs
    /\ cmd = "none"
    /\ pc = "idle"
    /\ endIndex = 0
    /\ startIdx = 0
    /\ styleRequests = <<>>
    /\ i = 0
    /\ calls = <<>>
    /\ result = NoResult
    /\ docBefore = doc
    /\ prev = [cmd |-> "none", result |-> NoResult, doc |-> doc]
    /\ runs = 0
    /\ line = <<>>
    /\ scan = ScanInit(<<>>)
    /\ AuxIdle

\* DocsWriteCmd.Run up to the Get of clearDocsContent and its checks.
ClearGet ==
    /\ Begin("write")
    /\ startIdx' = 1
    /\ \E outcome \in GetOutcomes :
        /\ calls' = <<GetCall(outcome)>>
        /\ IF outcome # "ok"
           THEN /\ result' = Err(<<"clear doc content: ", ApiError(outcome)>>)
                /\ pc' = "done"
                /\ endIndex' = 0
           ELSE /\ result' = NoResult
                /\ endIndex' = MaxEndIndex(Content(doc), 0)
                /\ pc' = IF ClearDeletes(Content(doc)) THEN "delete" ELSE "insert"
    /\ UNCHANGED <<doc, exists, markdown, scanVars, auxVars>>

\* The BatchUpdate of clearDocsContent.
ClearDelete ==
    /\ pc = "delete"
    /\ LET rs == <<DeleteRequest(endIndex)>>
       IN  \E outcome \in BatchOutcomes(doc, rs) :
            /\ calls' = Append(calls, BatchCall(rs, outcome))
            /\ IF outcome = "ok"
               THEN /\ doc' = ApplyAll(doc, rs)
                    /\ pc' = "insert"
                    /\ result' = result
               ELSE /\ doc' = doc
                    /\ pc' = "done"
                    /\ result' = Err(<<"clear doc content: ", ApiError(outcome)>>)
    /\ UNCHANGED <<exists, markdown, cmd, endIndex, startIdx, styleRequests, i,
                   docBefore, prev, runs, scanVars, auxVars>>

\* DocsAppendCmd.Run up to its Get and the end index it reads.
AppendGet ==
    /\ Begin("append")
    /\ endIndex' = 0
    /\ \E outcome \in GetOutcomes :
        /\ calls' = <<GetCall(outcome)>>
        /\ IF outcome # "ok"
           THEN /\ result' = IF isDocsNotFound(outcome)
                             THEN Err(<<"doc not found or not a Google Doc (id=", DocID, ")">>)
                             ELSE Err(<<ApiError(outcome)>>)
                /\ pc' = "done"
                /\ startIdx' = 0
           ELSE /\ result' = NoResult
                /\ startIdx' = AppendEndIndex(Content(doc))
                /\ pc' = "insert"
    /\ UNCHANGED <<doc, exists, markdown, scanVars, auxVars>>

\* A variant of InsertText that goes on to the styles when the insertion failed.
InsertTextIgnoresError ==
    /\ pc = "insert"
    /\ LET segments == Segments(markdown)
           rs == <<InsertRequest(segments, startIdx)>>
       IN  \E outcome \in BatchOutcomes(doc, rs) :
            /\ calls' = Append(calls, BatchCall(rs, outcome))
            /\ doc' = IF outcome = "ok" THEN ApplyAll(doc, rs) ELSE doc
            /\ styleRequests' = StyleRequests(segments, startIdx)
            /\ IF Len(styleRequests') > 0
               THEN pc' = "style" /\ result' = result
               ELSE pc' = "done" /\ result' = Ok(<<cmd, DocID>>)
    /\ UNCHANGED <<exists, markdown, cmd, endIndex, startIdx, i, docBefore, prev, runs,
                   scanVars, auxVars>>

\* writeMarkdownToDoc up to the insertion call and the style list built after it.
InsertText ==
    /\ pc = "insert"
    /\ LET segments == Segments(markdown)
           rs == <<InsertRequest(segments, startIdx)>>
       IN  \E outcome \in BatchOutcomes(doc, rs) :
            /\ calls' = Append(calls, BatchCall(rs, outcome))
            /\ IF outcome = "ok"
               THEN /\ doc' = ApplyAll(doc, rs)
                    /\ styleRequests' = StyleRequests(segments, startIdx)
                    /\ IF Len(styleRequests') > 0
                       THEN pc' = "style" /\ result' = result
                       ELSE pc' = "done" /\ result' = Ok(<<cmd, DocID>>)
               ELSE /\ doc' = doc
                    /\ styleRequests' = styleRequests
                    /\ pc' = "done"
                    /\ result' = Err(<<"insert text: ", ApiError(outcome)>>)
    /\ UNCHANGED <<exists, markdown, cmd, endIndex, startIdx, i, docBefore, prev, runs,
                   scanVars, auxVars>>

\* A variant of StyleBatch that goes on to the next batch when one failed.
StyleBatchIgnoresError ==
    /\ pc = "style"
    /\ LET rs == Batch(styleRequests, i)
       IN  \E outcome \in BatchOutcomes(doc, rs) :
            /\ calls' = Append(calls, BatchCall(rs, outcome))
            /\ doc' = IF outcome = "ok" THEN ApplyAll(doc, rs) ELSE doc
            /\ i' = i + batchSize
            /\ IF i' < Len(styleRequests)
               THEN pc' = "style" /\ result' = result
               ELSE pc' = "done" /\ result' = Ok(<<cmd, DocID>>)
    /\ UNCHANGED <<exists, markdown, cmd, endIndex, startIdx, styleRequests, docBefore,
                   prev, runs, scanVars, auxVars>>

\* One iteration of the batch loop of writeMarkdownToDoc.
StyleBatch ==
    /\ pc = "style"
    /\ LET rs == Batch(styleRequests, i)
       IN  \E outcome \in BatchOutcomes(doc, rs) :
            /\ calls' = Append(calls, BatchCall(rs, outcome))
            /\ IF outcome = "ok"
               THEN /\ doc' = ApplyAll(doc, rs)
                    /\ i' = i + batchSize
                    /\ IF i' < Len(styleRequests)
                       THEN pc' = "style" /\ result' = result
                       ELSE pc' = "done" /\ result' = Ok(<<cmd, DocID>>)
               ELSE /\ doc' = doc
                    /\ i' = i
                    /\ pc' = "done"
                    /\ result' = Err(<<"apply styles batch: ", ApiError(outcome)>>)
    /\ UNCHANGED <<exists, markdown, cmd, endIndex, startIdx, styleRequests, docBefore,
                   prev, runs, scanVars, auxVars>>

Next == ClearGet \/ ClearDelete \/ AppendGet \/ InsertText \/ StyleBatch

Spec == Init /\ [][Next]_vars

(***************************************************************************)
(* The inline scan, one loop iteration at a time                           *)
(***************************************************************************)
ScanSpecInit ==
    /\ line \in ScanLines
    /\ scan = ScanInit(line)
    /\ doc = PlainCells(<<NL>>)
    /\ exists = TRUE
    /\ markdown = <<>>
    /\ cmd = "none"
    /\ pc = "idle"
    /\ endIndex = 0
    /\ startIdx = 0
    /\ styleRequests = <<>>
    /\ i = 0
    /\ calls = <<>>
    /\ result = NoResult
    /\ docBefore = doc
    /\ prev = [cmd |-> "none", result |-> NoResult, doc |-> doc]
    /\ runs = 0
    /\ AuxIdle

\* One iteration of the for loop over tempText.
ScanIter ==
    /\ ~scan.done
    /\ scan' = ScanStep(scan)
    /\ UNCHANGED <<line, procVars, auxVars>>

ScanNext == ScanIter

SpecScan == ScanSpecInit /\ [][ScanNext]_vars

\* The loop is sequential code: an iteration that can run does run.
SpecScanFair == ScanSpecInit /\ [][ScanNext]_vars /\ WF_vars(ScanNext)

(***************************************************************************)
(* The loop over lines of writeMarkdownToDoc, one line, step by step       *)
(***************************************************************************)
\* No command runs.
ProcIdle ==
    /\ doc = PlainCells(<<NL>>)
    /\ exists = TRUE
    /\ markdown = <<>>
    /\ cmd = "none"
    /\ pc = "idle"
    /\ endIndex = 0
    /\ startIdx = 0
    /\ styleRequests = <<>>
    /\ i = 0
    /\ calls = <<>>
    /\ result = NoResult
    /\ docBefore = doc
    /\ prev = [cmd |-> "none", result |-> NoResult, doc |-> doc]
    /\ runs = 0

\* The inline scan is not running.
ScanIdle == [ScanInit(<<>>) EXCEPT !.done = TRUE]

LineSpecInit ==
    /\ line \in TokLines
    /\ scan = ScanIdle
    /\ seg = [NoSeg EXCEPT !.phase = "line"]
    /\ inv = NoInv
    /\ cat = NoCat
    /\ ProcIdle

\* trimmed == "" or trimmed == "---": the segment is a bare newline.
LineBlank ==
    /\ seg.phase = "line"
    /\ LET trimmed == TrimSpace(TrimRightCR(line))
       IN  /\ trimmed = <<>> \/ trimmed = <<"-", "-", "-">>
           /\ seg' = [phase |-> "done", text |-> <<>>,
                      s |-> segment(<<NL>>, "NORMAL_TEXT", FALSE, FALSE, <<>>)]
    /\ UNCHANGED <<line, scan, inv, cat, procVars>>

\* The heading switch.
LineHeading ==
    /\ seg.phase = "line"
    /\ LET trimmed == TrimSpace(TrimRightCR(line))
           h == HeadingOf(TrimRightCR(line), trimmed)
       IN  /\ ~(trimmed = <<>> \/ trimmed = <<"-", "-", "-">>)
           /\ seg' = [phase |-> "list", text |-> h.text,
                      s |-> segment(<<>>, h.style, FALSE, FALSE, <<>>)]
    /\ UNCHANGED <<line, scan, inv, cat, procVars>>

\* The list check, and the start of the inline scan on what is left.
LineList ==
    /\ seg.phase = "list"
    /\ LET l == ListOf(seg.s.style, seg.text)
       IN  /\ seg' = [phase |-> "scan", text |-> l.text,
                      s |-> [seg.s EXCEPT !.isBullet = l.isBullet,
                                            !.isNumbered = l.isNumbered]]
           /\ scan' = ScanInit(l.text)
    /\ UNCHANGED <<line, inv, cat, procVars>>

\* s.text = cleanText.String() + "\n"; segments = append(segments, s).
LineEmit ==
    /\ seg.phase = "scan"
    /\ scan.done
    /\ seg' = [seg EXCEPT !.phase = "done",
                          !.s = [seg.s EXCEPT !.text = scan.cleanText \o <<NL>>,
                                              !.ranges = scan.ranges]]
    /\ UNCHANGED <<line, scan, inv, cat, procVars>>

LineNext == LineBlank \/ LineHeading \/ LineList \/ ScanIter \/ LineEmit

SpecLine == LineSpecInit /\ [][LineNext]_vars

(***************************************************************************)
(* Two invocations on the same document ID.  Each is a process of its own  *)
(* with its own variables; the document in the store is all they share.    *)
(* inv[p] holds the variables of invocation p, and, for the properties,    *)
(* the document its Get returned and whether the two ran at the same time. *)
(***************************************************************************)
Procs == {1, 2}
Other(p) == 3 - p

\* The texts the two invocations write.
RaceInputs ==
    {<<"a">>, <<"#", " ", "a">>, <<"*", "*", "a", "*", "*", "a">>, <<"-", " ", "a", NL, "a">>}

Invocation(c, md) ==
    [cmd |-> c, markdown |-> md, pc |-> "start", endIndex |-> 0, startIdx |-> 0,
     styleRequests |-> <<>>, i |-> 0, result |-> NoResult, seen |-> <<>>,
     overlapped |-> FALSE]

InProgress(p) == inv[p].pc \notin {"start", "done"}

RaceInit ==
    /\ doc \in InitDocs
    /\ exists = TRUE
    /\ docBefore = doc
    /\ inv \in [Procs -> {Invocation(c, md) : c \in {"write", "append"}, md \in RaceInputs}]
    /\ markdown = <<>>
    /\ cmd = "none"
    /\ pc = "idle"
    /\ endIndex = 0
    /\ startIdx = 0
    /\ styleRequests = <<>>
    /\ i = 0
    /\ calls = <<>>
    /\ result = NoResult
    /\ prev = [cmd |-> "none", result |-> NoResult, doc |-> doc]
    /\ runs = 0
    /\ line = <<>>
    /\ scan = ScanIdle
    /\ seg = NoSeg
    /\ cat = NoCat

RaceUnchanged ==
    UNCHANGED <<exists, markdown, cmd, pc, endIndex, startIdx, styleRequests, i, calls,
                result, docBefore, prev, runs, scanVars, seg, cat>>

\* The Get of invocation p: clearDocsContent's for write, DocsAppendCmd.Run's
\* for append, and the indexes read from what it returns.
RaceGet(p) ==
    /\ inv[p].pc = "start"
    /\ \E outcome \in GetOutcomes :
        LET me == inv[p]
            content == Content(doc)
            failed ==
                [me EXCEPT !.pc = "done",
                           !.result =
                               IF me.cmd = "write"
                               THEN Err(<<"clear doc content: ", ApiError(outcome)>>)
                               ELSE IF isDocsNotFound(outcome)
                               THEN Err(<<"doc not found or not a Google Doc (id=", DocID, ")">>)
                               ELSE Err(<<ApiError(outcome)>>)]
            read ==
                IF me.cmd = "write"
                THEN [me EXCEPT !.endIndex = MaxEndIndex(content, 0),
                                !.startIdx = 1,
                                !.pc = IF ClearDeletes(content) THEN "delete" ELSE "insert",
                                !.seen = doc,
                                !.overlapped = InProgress(Other(p))]
                ELSE [me EXCEPT !.startIdx = AppendEndIndex(content),
                                !.pc = "insert",
                                !.seen = doc,
                                !.overlapped = InProgress(Other(p))]
        IN  inv' = IF outcome # "ok"
                   THEN [inv EXCEPT ![p] = failed]
                   ELSE [inv EXCEPT ![p] = read,
                                    ![Other(p)].overlapped = @ \/ InProgress(Other(p))]
    /\ doc' = doc
    /\ RaceUnchanged

\* The BatchUpdate of clearDocsContent in invocation p.
RaceDelete(p) ==
    /\ inv[p].pc = "delete"
    /\ LET rs == <<DeleteRequest(inv[p].endIndex)>>
       IN  \E outcome \in BatchOutcomes(doc, rs) :
            IF outcome = "ok"
            THEN /\ doc' = ApplyAll(doc, rs)
                 /\ inv' = [inv EXCEPT ![p].pc = "insert"]
            ELSE /\ doc' = doc
                 /\ inv' = [inv EXCEPT ![p].pc = "done",
                                       ![p].result =
                                           Err(<<"clear doc content: ", ApiError(outcome)>>)]
    /\ RaceUnchanged

\* A variant of RaceInsert that reads the document again before it inserts.
RaceInsertRereads(p) ==
    /\ inv[p].pc = "insert"
    /\ LET segments == Segments(inv[p].markdown)
           idx == IF inv[p].cmd = "write" THEN 1 ELSE AppendEndIndex(Content(doc))
           rs == <<InsertRequest(segments, idx)>>
           requests == StyleRequests(segments, idx)
       IN  \E outcome \in BatchOutcomes(doc, rs) :
            IF outcome = "ok"
            THEN /\ doc' = ApplyAll(doc, rs)
                 /\ inv' = [inv EXCEPT ![p].styleRequests = requests,
                                       ![p].startIdx = idx,
                                       ![p].pc = IF Len(requests) > 0 THEN "style" ELSE "done",
                                       ![p].result = IF Len(requests) > 0 THEN @
                                                     ELSE Ok(<<inv[p].cmd, DocID>>)]
            ELSE /\ doc' = doc
                 /\ inv' = [inv EXCEPT ![p].pc = "done",
                                       ![p].result = Err(<<"insert text: ", ApiError(outcome)>>)]
    /\ RaceUnchanged

\* writeMarkdownToDoc in invocation p up to the insertion call and the
\* style list built after it.
RaceInsert(p) ==
    /\ inv[p].pc = "insert"
    /\ LET segments == Segments(inv[p].markdown)
           rs == <<InsertRequest(segments, inv[p].startIdx)>>
           requests == StyleRequests(segments, inv[p].startIdx)
       IN  \E outcome \in BatchOutcomes(doc, rs) :
            IF outcome = "ok"
            THEN /\ doc' = ApplyAll(doc, rs)
                 /\ inv' = [inv EXCEPT ![p].styleRequests = requests,
                                       ![p].pc = IF Len(requests) > 0 THEN "style" ELSE "done",
                                       ![p].result = IF Len(requests) > 0 THEN @
                                                     ELSE Ok(<<inv[p].cmd, DocID>>)]
            ELSE /\ doc' = doc
                 /\ inv' = [inv EXCEPT ![p].pc = "done",
                                       ![p].result = Err(<<"insert text: ", ApiError(outcome)>>)]
    /\ RaceUnchanged

\* One iteration of the batch loop of writeMarkdownToDoc in invocation p.
RaceStyle(p) ==
    /\ inv[p].pc = "style"
    /\ LET rs == Batch(inv[p].styleRequests, inv[p].i)
           next == inv[p].i + batchSize
       IN  \E outcome \in BatchOutcomes(doc, rs) :
            IF outcome = "ok"
            THEN /\ doc' = ApplyAll(doc, rs)
                 /\ inv' = [inv EXCEPT ![p].i = next,
                                       ![p].pc = IF next < Len(inv[p].styleRequests)
                                                 THEN "style" ELSE "done",
                                       ![p].result = IF next < Len(inv[p].styleRequests)
                                                     THEN @ ELSE Ok(<<inv[p].cmd, DocID>>)]
            ELSE /\ doc' = doc
                 /\ inv' = [inv EXCEPT ![p].pc = "done",
                                       ![p].result =
                                           Err(<<"apply styles batch: ", ApiError(outcome)>>)]
    /\ RaceUnchanged

RaceNext == \E p \in Procs : RaceGet(p) \/ RaceDelete(p) \/ RaceInsert(p) \/ RaceStyle(p)

SpecRace == RaceInit /\ [][RaceNext]_vars

(***************************************************************************)
(* cat: docsPlainText.  A document is the tree Documents.Get returns; the  *)
(* buffer is a sequence of bytes.  cat holds maxBytes, the text of the     *)
(* document with no limit, the strings still to be passed to               *)
(* appendLimited, the buffer and what the last appendLimited returned.     *)
(***************************************************************************)
\* The bytes of one character in UTF-8.
BytesOfRune(c) ==
    IF c = Emoji THEN <<"F0", "9F", "98", "80">>
    ELSE IF c = EAcute THEN <<"C3", "A9">>
    ELSE <<c>>

\* The bytes of a Go string.
BytesOf(str) == Concat(AsSeq([k \in 1..Len(str) |-> BytesOfRune(str[k])]))

\* A variant of appendLimited that writes the whole string when it is
\* longer than what remains.
appendLimitedWhole(buf, maxBytes, str) ==
    IF maxBytes <= 0
    THEN [buf |-> buf \o BytesOf(str), ok |-> TRUE]
    ELSE LET remaining == maxBytes - Len(buf)
         IN  IF remaining <= 0
             THEN [buf |-> buf, ok |-> FALSE]
             ELSE IF ByteLen(str) > remaining
             THEN [buf |-> buf \o BytesOf(str), ok |-> FALSE]
             ELSE [buf |-> buf \o BytesOf(str), ok |-> TRUE]

\* appendLimited: the buffer after the call and the value returned.
appendLimited(buf, maxBytes, str) ==
    IF maxBytes <= 0
    THEN [buf |-> buf \o BytesOf(str), ok |-> TRUE]
    ELSE LET remaining == maxBytes - Len(buf)
         IN  IF remaining <= 0
             THEN [buf |-> buf, ok |-> FALSE]
             ELSE IF ByteLen(str) > remaining
             THEN [buf |-> buf \o Take(BytesOf(str), remaining), ok |-> FALSE]
             ELSE [buf |-> buf \o BytesOf(str), ok |-> TRUE]

\* The elements of a document.
TextRun(content) == [nil |-> FALSE, content |-> content]
NilRun == [nil |-> TRUE, content |-> <<>>]
Paragraph(elements) == [kind |-> "paragraph", elements |-> elements]
Table(rows) == [kind |-> "table", rows |-> rows]
TableOfContents(content) == [kind |-> "tableOfContents", content |-> content]
SectionBreak == [kind |-> "sectionBreak"]
NilElement == [kind |-> "nil"]
Document(content) == [body |-> TRUE, content |-> content]
NoBody == [body |-> FALSE, content |-> <<>>]

RECURSIVE ElementStrings(_)
\* appendDocsElementText: the strings it passes to appendLimited, in order,
\* when no call returns false.
ElementStrings(el) ==
    IF el.kind = "paragraph"
    THEN LET IsText(p) == ~p.nil
             texts == SelectSeq(el.elements, IsText)
         IN  AsSeq([k \in 1..Len(texts) |-> texts[k].content])
    ELSE IF el.kind = "table"
    THEN Concat(AsSeq([rowIdx \in 1..Len(el.rows) |->
             (IF rowIdx > 1 THEN <<<<NL>>>> ELSE <<>>) \o
             Concat(AsSeq([cellIdx \in 1..Len(el.rows[rowIdx]) |->
                 (IF cellIdx > 1 THEN <<<<"\t">>>> ELSE <<>>) \o
                 Concat(AsSeq([k \in 1..Len(el.rows[rowIdx][cellIdx]) |->
                     ElementStrings(el.rows[rowIdx][cellIdx][k])]))]))]))
    ELSE IF el.kind = "tableOfContents"
    THEN Concat(AsSeq([k \in 1..Len(el.content) |-> ElementStrings(el.content[k])]))
    ELSE <<>>

\* The strings docsPlainText passes to appendLimited when no call returns
\* false: none for a document with no body.
DocStrings(d) ==
    IF ~d.body THEN <<>>
    ELSE Concat(AsSeq([k \in 1..Len(d.content) |-> ElementStrings(d.content[k])]))

RECURSIVE AppendWhileOk(_, _, _)
\* The buffer after the calls of appendLimited on the strings strs, in
\* order, up to the first that returns false.
AppendWhileOk(buf, maxBytes, strs) ==
    IF strs = <<>> THEN buf
    ELSE LET r == appendLimited(buf, maxBytes, Head(strs))
         IN  IF r.ok THEN AppendWhileOk(r.buf, maxBytes, Tail(strs)) ELSE r.buf

\* docsPlainText: the bytes of the string it returns.
docsPlainText(d, maxBytes) == AppendWhileOk(<<>>, maxBytes, DocStrings(d))

\* The contents of text runs.
RunContents == {<<>>, <<"a">>, <<EAcute>>, <<"a", NL>>, <<Emoji, "a">>}

ExampleTable ==
    Table(<<
        <<<<Paragraph(<<TextRun(<<"a", NL>>)>>)>>,
          <<Paragraph(<<TextRun(<<EAcute>>), NilRun, TextRun(<<NL>>)>>)>>>>,
        <<<<Table(<<<<<<Paragraph(<<TextRun(<<"a">>)>>)>>, <<>>>>>>)>>,
          <<NilElement, Paragraph(<<TextRun(<<Emoji, NL>>)>>)>>>>>>)

ExampleContents ==
    TableOfContents(<<Paragraph(<<TextRun(<<"a", NL>>)>>),
                      Paragraph(<<TextRun(<<"a", "a", NL>>)>>)>>)

\* The documents cat reads: one with no body, one with no content,
\* paragraphs of up to MaxTextRuns runs, and documents with a table and a
\* table of contents.
CatDocs ==
    {NoBody, Document(<<>>)}
    \cup {Document(<<SectionBreak, Paragraph(AsSeq([k \in 1..Len(rs) |-> TextRun(rs[k])]))>>) :
              rs \in Seqs(RunContents, MaxTextRuns)}
    \cup {Document(<<SectionBreak, Paragraph(<<TextRun(<<"a", NL>>)>>), el,
                     Paragraph(<<NilRun, TextRun(<<"a", EAcute, NL>>)>>)>>) :
              el \in {ExampleTable, ExampleContents, NilElement}}

CatInit ==
    /\ \E d \in CatDocs, maxBytes \in -1..MaxMaxBytes :
           cat = [maxBytes |-> maxBytes, text |-> docsPlainText(d, 0),
                  todo |-> DocStrings(d), buf |-> <<>>, more |-> TRUE]
    /\ line = <<>>
    /\ scan = ScanIdle
    /\ seg = NoSeg
    /\ inv = NoInv
    /\ ProcIdle

\* One call of appendLimited, made while no call has returned false and a
\* string is left.
CatAppend ==
    /\ cat.more
    /\ cat.todo # <<>>
    /\ LET r == appendLimited(cat.buf, cat.maxBytes, Head(cat.todo))
       IN  cat' = [cat EXCEPT !.buf = r.buf, !.more = r.ok, !.todo = Tail(@)]
    /\ UNCHANGED <<procVars, scanVars, seg, inv>>

CatNext == CatAppend

SpecCat == CatInit /\ [][CatNext]_vars

(***************************************************************************)
(* Reading the log of calls                                                *)
(***************************************************************************)
\* Whether call c carries a request of the given kind.
HasKind(c, kind) == \E j \in 1..Len(c.requests) : c.requests[j].kind = kind

InsertCalls == {k \in 1..Len(calls) : HasKind(calls[k], "InsertText")}
DeleteCalls == {k \in 1..Len(calls) : HasKind(calls[k], "DeleteContentRange")}
StyleCalls == {k \in 1..Len(calls) : \E kind \in StyleKinds : HasKind(calls[k], kind)}
GetCalls == {k \in 1..Len(calls) : calls[k].op = "get"}

\* The blob the run converts its input to.
Blob == FullText(Segments(markdown))

\* The insertion of the whole blob at index idx, as the only request of a call.
InsertsBlobAt(c, idx) == c.requests = <<Request("InsertText", idx, idx, "", Blob)>>

(***************************************************************************)
(* C1  write calls get, then, only when the document's end index is        *)
(* greater than 2, one delete of exactly [1, endOfDoc-1), then the         *)
(* insertion of the blob at index 1.  The delete never covers the final    *)
(* newline; with an end index of 2 or less there is no delete, no error,   *)
(* and write goes on to the insertion.                                     *)
(***************************************************************************)
C1_WriteCallOrder ==
    (cmd = "write" /\ Len(calls) >= 1) =>
        LET endOfDoc == EndOfDoc(docBefore)
            cleared == IF endOfDoc > 2 THEN 2 ELSE 1
        IN  /\ GetCalls = {1}
            /\ DeleteCalls = IF endOfDoc > 2 /\ Len(calls) >= 2 THEN {2} ELSE {}
            /\ \A k \in DeleteCalls :
                   /\ calls[k].requests =
                          <<Request("DeleteContentRange", 1, endOfDoc - 1, "", <<>>)>>
                   /\ calls[k].requests[1].end <= Len(docBefore)
            /\ \A k \in InsertCalls : k = cleared + 1 /\ InsertsBlobAt(calls[k], 1)
            /\ (Len(calls) > cleared) => cleared + 1 \in InsertCalls
            /\ (Len(calls) = cleared /\ calls[cleared].outcome = "ok") =>
                   pc = "insert" /\ result.status = "none"

C1_Witness ==
    /\ cmd = "write" /\ pc = "done" /\ result.status = "ok"
    /\ DeleteCalls = {2} /\ InsertCalls = {3}

\* The same path on a document that holds only its final newline.
C1_WitnessEmpty ==
    /\ cmd = "write" /\ pc = "done" /\ result.status = "ok"
    /\ EndOfDoc(docBefore) = 2 /\ InsertCalls = {2}

(***************************************************************************)
(* C2  Idempotence of write: a second write of the same input, right after *)
(* a first one, with every call succeeding, leaves the document as the     *)
(* first write left it: same text, same styles.                            *)
(***************************************************************************)
TwoWrites ==
    /\ pc = "done" /\ cmd = "write" /\ result.status = "ok"
    /\ prev.cmd = "write" /\ prev.result.status = "ok"

C2_WriteIdempotent == TwoWrites => doc = prev.doc

C2_Witness ==
    /\ TwoWrites
    /\ Len(styleRequests) > 0
    /\ \E k \in 1..Len(doc) : doc[k].bold
    /\ \E k \in 1..Len(doc) : doc[k].para # "NORMAL_TEXT"

(***************************************************************************)
(* C3  append issues no delete and inserts the blob at the end index read  *)
(* by its single get: the end index of the last body element, or 1 for an  *)
(* empty body.  The text the document held before is still there.          *)
(***************************************************************************)
C3_AppendAtEnd ==
    /\ AppendEndIndex(<<>>) = 1
    /\ (cmd = "append" /\ Len(calls) >= 1) =>
        /\ GetCalls = {1}
        /\ DeleteCalls = {}
        /\ \A k \in InsertCalls : k = 2 /\ InsertsBlobAt(calls[k], EndOfDoc(docBefore))
        /\ (Len(calls) >= 2) => 2 \in InsertCalls
        /\ Len(doc) >= Len(docBefore)
        /\ SubSeq(DocText(doc), 1, Len(docBefore)) = DocText(docBefore)

C3_Witness ==
    /\ cmd = "append" /\ pc = "done" /\ result.status = "ok"
    /\ Len(doc) > Len(docBefore) + 1
    /\ Len(styleRequests) > 0

(***************************************************************************)
(* C4  A run submits at most one insertion, and exactly one once its get   *)
(* and delete have succeeded: the whole blob, alone in its batchUpdate     *)
(* call, before any style request.  Style requests are submitted only      *)
(* after that call succeeded, and the styling phase is entered from the    *)
(* insertion phase only.                                                   *)
(***************************************************************************)
\* The calls before the insertion have all been made and have succeeded.
PastClear ==
    /\ Len(calls) >= 1
    /\ calls[1].outcome = "ok"
    /\ \A k \in DeleteCalls : calls[k].outcome = "ok"
    /\ pc # "delete"

C4_InsertThenStyle ==
    /\ Cardinality(InsertCalls) <= 1
    /\ \A k \in InsertCalls : InsertsBlobAt(calls[k], startIdx)
    /\ \A s \in StyleCalls :
           /\ s \notin InsertCalls
           /\ \E k \in InsertCalls : k < s /\ calls[k].outcome = "ok"
    /\ (pc = "style") => \E k \in InsertCalls : calls[k].outcome = "ok"
    /\ (pc = "insert") => InsertCalls = {} /\ StyleCalls = {}
    /\ (PastClear /\ pc \in {"style", "done"}) => Cardinality(InsertCalls) = 1

C4_Witness ==
    /\ pc = "done" /\ result.status = "ok"
    /\ Cardinality(InsertCalls) = 1
    /\ Cardinality(StyleCalls) = 2

(***************************************************************************)
(* C5  Batch chunking: a style list of n requests is submitted as          *)
(* ceil(n/50) calls of at most 50 requests each, whose concatenation in    *)
(* submission order is the style list in its original order; for n = 0     *)
(* there is no styling call.                                               *)
(***************************************************************************)
\* The style calls made so far, in order, and the requests they carried.
StyleCallSeq ==
    LET first == IF StyleCalls = {} THEN Len(calls) + 1
                 ELSE CHOOSE k \in StyleCalls : \A j \in StyleCalls : k <= j
    IN  SubSeq(calls, first, Len(calls))
Submitted == Concat(AsSeq([k \in 1..Len(StyleCallSeq) |-> StyleCallSeq[k].requests]))

\* The style list of the run: the paragraph, list and emphasis requests of
\* its segments.
StyleList == StyleRequests(Segments(markdown), startIdx)

CeilDiv(n, m) == (n + m - 1) \div m

C5_BatchChunking ==
    LET seq == StyleCallSeq
        submitted == Submitted
        list == StyleList
    IN  /\ \A k \in 1..Len(seq) :
               /\ Len(seq[k].requests) >= 1
               /\ Len(seq[k].requests) <= 50
               /\ (k < Len(seq)) => Len(seq[k].requests) = 50
        /\ Cardinality(StyleCalls) = Len(seq)
        /\ (Len(seq) > 0) =>
               /\ Len(list) > 0
               /\ submitted = SubSeq(list, 1, Len(submitted))
        /\ (pc = "done" /\ result.status = "ok") =>
               /\ submitted = list
               /\ Len(seq) = CeilDiv(Len(list), 50)

C5_Witness ==
    /\ pc = "done" /\ result.status = "ok"
    /\ Len(StyleList) = 51
    /\ Cardinality(StyleCalls) = 2

(***************************************************************************)
(* C6  A failed call ends the run: it is the last call of the run, Run     *)
(* returns an error, and what the calls before it did stays applied.       *)
(* Success is returned only when every call succeeded and the whole style  *)
(* list was submitted.                                                     *)
(***************************************************************************)
RECURSIVE Applied(_, _)
\* The document after the first n calls of the run: each successful
\* batchUpdate applied to the document the run began with.
Applied(d, n) ==
    IF n = 0 THEN d
    ELSE LET before == Applied(d, n - 1)
         IN  IF calls[n].op = "batchUpdate" /\ calls[n].outcome = "ok"
             THEN ApplyAll(before, calls[n].requests)
             ELSE before

C6_FailureStopsRun ==
    /\ \A k \in 1..Len(calls) : (calls[k].outcome # "ok") =>
           /\ k = Len(calls)
           /\ pc = "done"
           /\ result.status = "error"
    /\ (result.status = "error") =>
           Len(calls) >= 1 /\ calls[Len(calls)].outcome # "ok"
    /\ (result.status = "ok") =>
           /\ pc = "done"
           /\ \A k \in 1..Len(calls) : calls[k].outcome = "ok"
           /\ Cardinality(InsertCalls) = 1
           /\ Submitted = StyleList
    /\ (pc = "done") => doc = Applied(docBefore, Len(calls))

C6_Witness ==
    /\ pc = "done" /\ result.status = "error"
    /\ Cardinality(StyleCalls) = 2
    /\ calls[Len(calls)].outcome = "transport"
    /\ doc # docBefore
    /\ \E k \in 1..Len(doc) : doc[k].list # ""

(***************************************************************************)
(* C7  When the get fails with NotFound, write and append both return a    *)
(* not-found error that includes the document ID, and submit no edit.      *)
(***************************************************************************)
\* Whether the text of an error names the document.
NamesDocument(msg) == \E k \in 1..Len(msg) : msg[k] = DocID

C7_NotFoundNamesDocument ==
    (pc = "done" /\ Len(calls) >= 1 /\ calls[1].outcome = "notfound") =>
        /\ result.status = "error"
        /\ NamesDocument(result.msg)
        /\ Len(calls) = 1

(***************************************************************************)
(* C8  Document assembler: the first segment starts at the insertion       *)
(* index, every segment ends at its start plus the UTF-16 length of its    *)
(* text, and the next segment starts where the one before ends, so that    *)
(* every segment's range covers its own paragraph of the inserted blob.    *)
(***************************************************************************)
C8_SegmentRanges ==
    (pc \in {"style", "done"} /\ \E k \in InsertCalls : calls[k].outcome = "ok") =>
        LET segments == Segments(markdown)
            starts == ParaStarts(segments, startIdx)
            paraEnd(k) == starts[k] + SegLen(segments[k])
        IN  /\ starts[1] = startIdx
            /\ \A k \in 1..Len(segments) :
                   /\ paraEnd(k) = starts[k] + Len(UnitsOf(segments[k].text))
                   /\ (k < Len(segments)) => starts[k + 1] = paraEnd(k)

(***************************************************************************)
(* C9  Inline span extractor: each recorded emphasis range [start, end) is *)
(* in UTF-16 code units from the start of the segment's plain text and     *)
(* selects the text that stood between the matched delimiters: start is    *)
(* the UTF-16 length of the plain text emitted before it, end - start the  *)
(* UTF-16 length of the enclosed text.  "Body **bold** text" gives         *)
(* "Body bold text" with one bold range [5, 9).                            *)
(***************************************************************************)
\* The next delimiter of the text left to scan: "**" when one stands at the
\* first "*", else "*".
NextIsBold(temp) ==
    Index(temp, BoldMark) # -1 /\ Index(temp, BoldMark) <= Index(temp, ItalicMark)
NextMark(temp) == IF NextIsBold(temp) THEN BoldMark ELSE ItalicMark
\* The text before the next delimiter, and the text after it.
BeforeMark(temp) == Take(temp, Index(temp, ItalicMark))
AfterMark(temp) == Drop(temp, Index(temp, ItalicMark) + Len(NextMark(temp)))
HasMark(temp) == Index(temp, ItalicMark) # -1
\* The text that follows the first "*".
AfterMarkAt(temp) == Drop(temp, Index(temp, ItalicMark) + 1)
\* Whether the next delimiter has a closing delimiter of its kind after it.
IsClosed(temp) == HasMark(temp) /\ Index(AfterMark(temp), NextMark(temp)) # -1
\* The text between the next delimiter and its closing delimiter.
Enclosed(temp) == Take(AfterMark(temp), Index(AfterMark(temp), NextMark(temp)))

IsPrefix(p, s) == Len(p) <= Len(s) /\ SubSeq(s, 1, Len(p)) = p

ExamplePlain ==
    <<"B", "o", "d", "y", " ", "b", "o", "l", "d", " ", "t", "e", "x", "t">>

C9_Step ==
    /\ IsPrefix(scan.cleanText, scan'.cleanText)
    /\ IsPrefix(scan.ranges, scan'.ranges)
    /\ IsClosed(scan.tempText) =>
        /\ Len(scan'.ranges) = Len(scan.ranges) + 1
        /\ LET r == scan'.ranges[Len(scan'.ranges)]
               inner == Enclosed(scan.tempText)
               plain == UnitsOf(scan'.cleanText)
           IN  /\ r.start = Len(UnitsOf(scan.cleanText \o BeforeMark(scan.tempText)))
               /\ r.end - r.start = Len(UnitsOf(inner))
               /\ r.end = Len(plain)
               /\ SubSeq(plain, r.start + 1, r.end) = UnitsOf(inner)
               /\ r.bold = NextIsBold(scan.tempText)
               /\ r.italic = ~NextIsBold(scan.tempText)
    /\ (scan'.done /\ line = ExampleBody) =>
        /\ scan'.cleanText = ExamplePlain
        /\ scan'.ranges = <<formatRange(5, 9, TRUE, FALSE)>>
    /\ (scan'.done /\ line = ExampleEmoji) =>
        scan'.ranges = <<formatRange(3, 4, TRUE, FALSE)>>

C9_EmphasisRanges == [][C9_Step]_vars

C9_Witness ==
    /\ scan.done
    /\ \E k \in 1..Len(line) : line[k] = Emoji
    /\ Len(scan.ranges) = 1
    /\ scan.ranges[1].start = 2
    /\ scan.ranges[1].end = 3

(***************************************************************************)
(* C10  Unterminated marker: an opening "**" or "*" with no closing        *)
(* delimiter of its kind later on the line stays in the plain text as      *)
(* literal text, records no range and raises no error.  "a **b" gives the  *)
(* plain text "a **b" and no range.                                        *)
(***************************************************************************)
C10_Step ==
    /\ (HasMark(scan.tempText) /\ ~IsClosed(scan.tempText)) =>
        /\ scan'.cleanText =
               scan.cleanText \o BeforeMark(scan.tempText) \o NextMark(scan.tempText)
        /\ scan'.ranges = scan.ranges
        /\ scan'.tempText = AfterMark(scan.tempText)
    /\ scan'.done =>
        /\ IsPrefix(scan.cleanText, scan'.cleanText)
        /\ (scan'.ranges = <<>>) => scan'.cleanText = line
    /\ (scan'.done /\ line = ExampleUnterminated) =>
        /\ scan'.ranges = <<>>
        /\ SegmentOf(line).text = <<"a", " ", "*", "*", "b", NL>>
        /\ SegmentOf(line).ranges = <<>>

C10_UnterminatedIsLiteral == [][C10_Step]_vars

C10_Witness ==
    /\ scan.done
    /\ line = ExampleUnterminated
    /\ scan.cleanText = line
    /\ scan.ranges = <<>>

(***************************************************************************)
(* C11  Line tokenizer: the segments are as many as the lines of the       *)
(* input (its newlines plus one, also for the empty input) and stand in    *)
(* the order of the lines; every segment's text ends with a newline and    *)
(* holds no other; the inserted blob is the segment texts joined in order. *)
(***************************************************************************)
\* The run has just submitted its insertion.
JustInserted == Len(calls) >= 1 /\ HasKind(calls[Len(calls)], "InsertText")

C11_OneSegmentPerLine ==
    JustInserted =>
        LET segs == Segments(markdown)
            lines == Split(markdown)
            newlines == {k \in 1..Len(markdown) : markdown[k] = NL}
            lineAt == Offsets(AsSeq([k \in 1..Len(lines) |-> Len(lines[k]) + 1]),
                              1, Len(lines), 0)
            textAt == Offsets(AsSeq([k \in 1..Len(segs) |-> Len(segs[k].text)]),
                              1, Len(segs), 0)
            blob == calls[Len(calls)].requests[1].text
        IN  /\ Len(segs) = Cardinality(newlines) + 1
            /\ Len(lines) = Len(segs)
            /\ \A k \in 1..Len(lines) :
                   /\ lines[k] = SubSeq(markdown, lineAt[k] + 1, lineAt[k] + Len(lines[k]))
                   /\ \A j \in 1..Len(lines[k]) : lines[k][j] # NL
                   /\ segs[k] = SegmentOf(lines[k])
            /\ \A k \in 1..Len(segs) :
                   LET text == segs[k].text
                   IN  /\ Len(text) >= 1
                       /\ text[Len(text)] = NL
                       /\ \A j \in 1..(Len(text) - 1) : text[j] # NL
                       /\ text = SubSeq(blob, textAt[k] + 1, textAt[k] + Len(text))
            /\ Len(blob) = textAt[Len(segs)] + Len(segs[Len(segs)].text)

C11_Witness ==
    /\ JustInserted
    /\ Len(markdown) >= 2
    /\ markdown[Len(markdown)] = NL
    /\ Len(Segments(markdown)) >= 2

(***************************************************************************)
(* C12  Style list counts: one paragraph-style request for each heading    *)
(* segment and none for a NORMAL_TEXT segment; one bullet request, with    *)
(* the bullet or the numbered preset, for each list segment and none for   *)
(* the others.  A plain ASCII input without markdown syntax gives one      *)
(* NORMAL_TEXT segment per line, no style request and no styling call.     *)
(***************************************************************************)
MarkupChars == {"*", "#", "-", ".", CR, "\t"} \cup Digits
IsPlainAscii(s) == \A k \in 1..Len(s) : RuneLen(s[k]) = 1 /\ s[k] \notin MarkupChars

HeadingStyles == {"HEADING_1", "HEADING_2", "HEADING_3"}

C12_StyleCounts ==
    /\ IsPlainAscii(markdown) => StyleCalls = {}
    /\ (JustInserted /\ calls[Len(calls)].outcome = "ok") =>
        LET segs == Segments(markdown)
            starts == ParaStarts(segs, startIdx)
            placed == AsSeq([k \in 1..Len(segs) |-> [seg |-> segs[k], start |-> starts[k]]])
            IsHeading(x) == x.seg.style \in HeadingStyles
            IsList(x) == x.seg.isBullet \/ x.seg.isNumbered
            IsParaReq(r) == r.kind = "UpdateParagraphStyle"
            IsListReq(r) == r.kind = "CreateParagraphBullets"
            headings == SelectSeq(placed, IsHeading)
            lists == SelectSeq(placed, IsList)
            paraReqs == SelectSeq(styleRequests, IsParaReq)
            listReqs == SelectSeq(styleRequests, IsListReq)
        IN  /\ Len(paraReqs) = Len(headings)
            /\ \A j \in 1..Len(headings) :
                   /\ paraReqs[j].arg = headings[j].seg.style
                   /\ paraReqs[j].start = headings[j].start
                   /\ paraReqs[j].end = headings[j].start + SegLen(headings[j].seg)
            /\ Len(listReqs) = Len(lists)
            /\ \A j \in 1..Len(lists) :
                   /\ listReqs[j].arg = IF lists[j].seg.isBullet
                                        THEN "BULLET_DISC_CIRCLE_SQUARE"
                                        ELSE "NUMBERED_DECIMAL_NESTED"
                   /\ listReqs[j].start = lists[j].start
                   /\ listReqs[j].end = lists[j].start + SegLen(lists[j].seg)
            /\ \A k \in 1..Len(segs) :
                   segs[k].style \in HeadingStyles \cup {"NORMAL_TEXT"}
            /\ IsPlainAscii(markdown) =>
                   /\ styleRequests = <<>>
                   /\ pc = "done" /\ result.status = "ok"
                   /\ \A k \in 1..Len(segs) :
                          /\ segs[k].style = "NORMAL_TEXT"
                          /\ ~segs[k].isBullet /\ ~segs[k].isNumbered
                          /\ segs[k].ranges = <<>>

C12_Witness ==
    /\ JustInserted /\ calls[Len(calls)].outcome = "ok"
    /\ \E j \in 1..Len(styleRequests) : styleRequests[j].kind = "UpdateParagraphStyle"
    /\ \E j \in 1..Len(styleRequests) :
           styleRequests[j].arg = "BULLET_DISC_CIRCLE_SQUARE"
    /\ \E j \in 1..Len(styleRequests) :
           styleRequests[j].arg = "NUMBERED_DECIMAL_NESTED"
    /\ \E k \in 1..Len(Segments(markdown)) :
           LET x == Segments(markdown)[k]
           IN  x.style = "NORMAL_TEXT" /\ ~x.isBullet /\ ~x.isNumbered

(***************************************************************************)
(* C13  List detection, for NORMAL_TEXT lines only: a line that starts     *)
(* with "- " or "* " is a bullet item and loses these 2 characters;        *)
(* otherwise a line that starts with one digit, a period and a space is a  *)
(* numbered item and loses these 3 characters; otherwise it is no list     *)
(* item.  A heading is never a list item, and "10. x" is not numbered.     *)
(***************************************************************************)
StartsBullet(t) == Len(t) >= 2 /\ t[1] \in {"-", "*"} /\ t[2] = " "
StartsNumbered(t) == Len(t) >= 3 /\ t[1] \in Digits /\ t[2] = "." /\ t[3] = " "

C13_ListDetection ==
    LET line0 == TrimRightCR(line)
        bullet == StartsBullet(line0)
        numbered == ~bullet /\ StartsNumbered(line0)
    IN  /\ (seg.phase \in {"scan", "done"}) =>
               /\ ~(seg.s.isBullet /\ seg.s.isNumbered)
               /\ (seg.s.style # "NORMAL_TEXT") => ~seg.s.isBullet /\ ~seg.s.isNumbered
               /\ (seg.s.style = "NORMAL_TEXT") =>
                      seg.s.isBullet = bullet /\ seg.s.isNumbered = numbered
        /\ (seg.phase = "scan" /\ seg.s.style = "NORMAL_TEXT") =>
               seg.text = IF bullet THEN SubSeq(line0, 3, Len(line0))
                          ELSE IF numbered THEN SubSeq(line0, 4, Len(line0))
                          ELSE line0
        /\ (seg.phase = "done" /\ line = ExampleTen) =>
               /\ ~seg.s.isNumbered /\ ~seg.s.isBullet
               /\ seg.s.text = <<"1", "0", ".", " ", "x", NL>>
        /\ (seg.phase = "done" /\ line = ExampleItemOne) =>
               /\ seg.s.isBullet
               /\ seg.s.text = <<"i", "t", "e", "m", " ", "o", "n", "e", NL>>

C13_Witness ==
    /\ seg.phase = "done"
    /\ seg.s.style \in HeadingStyles
    /\ StartsBullet(seg.s.text)
    /\ ~seg.s.isBullet

(***************************************************************************)
(* C14  Heading classification: a line whose trimmed form starts with      *)
(* "### ", "## " or "# ", tried in that order, is a HEADING_3, HEADING_2   *)
(* or HEADING_1, and the text kept for it is the line without that prefix, *)
(* also when white space stands before the "#".                            *)
(***************************************************************************)
\* The heading prefix the trimmed line starts with, <<>> when none.
HeadingPrefix(trimmed) ==
    IF HasPrefix(trimmed, H3Prefix) THEN H3Prefix
    ELSE IF HasPrefix(trimmed, H2Prefix) THEN H2Prefix
    ELSE IF HasPrefix(trimmed, H1Prefix) THEN H1Prefix
    ELSE <<>>

C14_HeadingPrefixRemoved ==
    (seg.phase = "list") =>
        LET line0 == TrimRightCR(line)
            body == TrimLeftSpace(line0)
            lead == Take(line0, Len(line0) - Len(body))
            prefix == HeadingPrefix(TrimSpace(line0))
            rest == Drop(body, Len(prefix))
        IN  /\ seg.s.style = IF prefix = H3Prefix THEN "HEADING_3"
                             ELSE IF prefix = H2Prefix THEN "HEADING_2"
                             ELSE IF prefix = H1Prefix THEN "HEADING_1"
                             ELSE "NORMAL_TEXT"
            /\ (prefix # <<>>) => seg.text \in {rest, lead \o rest}

(***************************************************************************)
(* C16  A line that is empty after trimming and a line that is "---"       *)
(* after trimming give the same segment: NORMAL_TEXT, a bare newline, no   *)
(* list kind, no emphasis range, no style request.  Putting an empty line  *)
(* in the place of a "---" line changes neither the blob nor the style     *)
(* list.                                                                   *)
(***************************************************************************)
\* Texts that stand before and after the line.
TextsBefore ==
    {<<>>, <<"#", " ", "a", NL>>, <<"-", " ", "a", NL>>, <<EAcute, NL>>, <<NL>>}
TextsAfter ==
    {<<>>, <<NL, "*", "a", "*">>, <<NL, "1", ".", " ", "a">>, <<NL>>}

C16_RuleIsBlank ==
    LET trimmed == TrimSpace(TrimRightCR(line))
        isRule == trimmed = <<"-", "-", "-">>
        isBlank == trimmed = <<>>
    IN  /\ (seg.phase \in {"list", "scan"}) => ~isRule /\ ~isBlank
        /\ (seg.phase = "done" /\ (isRule \/ isBlank)) =>
               /\ seg.s = segment(<<NL>>, "NORMAL_TEXT", FALSE, FALSE, <<>>)
               /\ SegmentRequests(seg.s, 1) = <<>>
        /\ (seg.phase = "done" /\ isRule) =>
               \A before \in TextsBefore, after \in TextsAfter :
                   LET with == Segments(before \o line \o after)
                       without == Segments(before \o after)
                   IN  /\ FullText(with) = FullText(without)
                       /\ \A idx \in {1, 3} :
                              StyleRequests(with, idx) = StyleRequests(without, idx)

C16_Witness ==
    /\ seg.phase = "done"
    /\ TrimSpace(TrimRightCR(line)) = <<"-", "-", "-">>
    /\ Len(line) > 3

(***************************************************************************)
(* C15  Emphasis requests: the style list holds one text-style request per *)
(* recorded emphasis range, each for bold or for italic and not both, at   *)
(* the segment's absolute start, in UTF-16 code units from the insertion   *)
(* index, plus the range's start and end, also when a line before holds    *)
(* characters that are not ASCII.                                          *)
(***************************************************************************)
\* Where each segment starts in the document, counted in UTF-16 code units.
UnitStarts(segs, idx) ==
    Offsets(AsSeq([k \in 1..Len(segs) |-> Len(UnitsOf(segs[k].text))]), 1, Len(segs), idx)

C15_EmphasisEdits ==
    (JustInserted /\ calls[Len(calls)].outcome = "ok") =>
        LET segs == Segments(markdown)
            at == UnitStarts(segs, startIdx)
            expected == Concat(AsSeq([k \in 1..Len(segs) |->
                            AsSeq([j \in 1..Len(segs[k].ranges) |->
                                [start |-> at[k] + segs[k].ranges[j].start,
                                 end |-> at[k] + segs[k].ranges[j].end,
                                 bold |-> segs[k].ranges[j].bold]])]))
            IsTextReq(r) == r.kind = "UpdateTextStyle"
            textReqs == SelectSeq(styleRequests, IsTextReq)
        IN  /\ Len(textReqs) = Len(expected)
            /\ \A j \in 1..Len(textReqs) :
                   /\ textReqs[j].arg = IF expected[j].bold THEN "bold" ELSE "italic"
                   /\ textReqs[j].start = expected[j].start
                   /\ textReqs[j].end = expected[j].end

(***************************************************************************)
(* C17  Emphasis ranges of a segment: in increasing order, each starting   *)
(* at or after the end of the one before, with 0 <= start <= end <= the    *)
(* UTF-16 length of the plain text (the segment text less its newline).    *)
(* A "**" that stands where the next "*" stands is taken as a bold         *)
(* delimiter, never as two italic delimiters.                              *)
(***************************************************************************)
RangesInOrder(st) ==
    /\ \A k \in 1..Len(st.ranges) :
           /\ 0 <= st.ranges[k].start
           /\ st.ranges[k].start <= st.ranges[k].end
           /\ st.ranges[k].end <= Len(UnitsOf(st.cleanText))
    /\ \A k \in 1..(Len(st.ranges) - 1) : st.ranges[k].end <= st.ranges[k + 1].start

C17_Step ==
    /\ RangesInOrder(scan')
    /\ (~scan.done /\ HasMark(scan.tempText) /\ HasPrefix(AfterMarkAt(scan.tempText), ItalicMark)) =>
           /\ Len(scan'.tempText) <= Len(scan.tempText) - Index(scan.tempText, ItalicMark) - 2
           /\ \A k \in (Len(scan.ranges) + 1)..Len(scan'.ranges) :
                  scan'.ranges[k].bold /\ ~scan'.ranges[k].italic
           /\ IsClosed(scan.tempText) \/
                  scan'.cleanText = scan.cleanText \o BeforeMark(scan.tempText) \o BoldMark
    /\ scan'.done =>
           LET text == scan'.cleanText \o <<NL>>
           IN  \A k \in 1..Len(scan'.ranges) :
                   scan'.ranges[k].end <= Len(UnitsOf(text)) - 1

C17_EmphasisRangeOrder == [][C17_Step]_vars

C17_Witness ==
    /\ scan.done
    /\ Len(scan.ranges) >= 2
    /\ scan.ranges[1].bold
    /\ scan.ranges[2].italic
    /\ scan.ranges[1].end < scan.ranges[2].start

(***************************************************************************)
(* C20  Every style request has a range that is not empty and lies in the  *)
(* inserted text: start < end, start >= the insertion index, end <= the    *)
(* insertion index plus the UTF-16 length of the blob; no emphasis request *)
(* has start = end, whatever the asterisks of a line.                      *)
(***************************************************************************)
C20_RangesInBlob ==
    (JustInserted /\ calls[Len(calls)].outcome = "ok") =>
        \A j \in 1..Len(styleRequests) :
            /\ styleRequests[j].start < styleRequests[j].end
            /\ styleRequests[j].start >= startIdx
            /\ styleRequests[j].end <= startIdx + Len(UnitsOf(Blob))

(***************************************************************************)
(* C18  Two invocations on one document are not coordinated: their calls   *)
(* interleave, and each sends the indexes it computed from the document    *)
(* its own Get returned, whatever the other has done since.  Run one after *)
(* the other they leave the document of that serial order; run at the same *)
(* time they can leave one that neither serial order gives.                *)
(***************************************************************************)
\* The style batches of a run, applied in order from request i on.
RECURSIVE ApplyBatches(_, _, _)
ApplyBatches(d, rs, from) ==
    IF from >= Len(rs) THEN d
    ELSE ApplyBatches(ApplyAll(d, Batch(rs, from)), rs, from + batchSize)

\* The document a run of command c with text md leaves of document d when
\* every call succeeds.
RunAlone(d, c, md) ==
    LET segments == Segments(md)
        cleared == IF c = "write" /\ ClearDeletes(Content(d))
                   THEN ApplyAll(d, <<DeleteRequest(MaxEndIndex(Content(d), 0))>>)
                   ELSE d
        idx == IF c = "write" THEN 1 ELSE AppendEndIndex(Content(cleared))
        inserted == ApplyAll(cleared, <<InsertRequest(segments, idx)>>)
    IN  ApplyBatches(inserted, StyleRequests(segments, idx), 0)

\* The document the two invocations leave when p runs first, then the other.
SerialDoc(p) ==
    RunAlone(RunAlone(docBefore, inv[p].cmd, inv[p].markdown),
             inv[Other(p)].cmd, inv[Other(p)].markdown)

BothSucceeded == \A p \in Procs : inv[p].pc = "done" /\ inv[p].result.status = "ok"

C18_NoCoordination ==
    /\ \A p \in Procs :
           InProgress(p) =>
                  /\ inv[p].cmd = "write" =>
                         /\ inv[p].startIdx = 1
                         /\ inv[p].endIndex = MaxEndIndex(Content(inv[p].seen), 0)
                  /\ inv[p].cmd = "append" =>
                         inv[p].startIdx = AppendEndIndex(Content(inv[p].seen))
                  /\ inv[p].pc = "style" =>
                         inv[p].styleRequests =
                             StyleRequests(Segments(inv[p].markdown), inv[p].startIdx)
    /\ (BothSucceeded /\ \A p \in Procs : ~inv[p].overlapped) =>
           \E p \in Procs : doc = SerialDoc(p)

C18_Witness ==
    /\ BothSucceeded
    /\ \A p \in Procs : inv[p].overlapped
    /\ \A p \in Procs : doc # SerialDoc(p)
    /\ \E p \in Procs : inv[p].cmd = "append" /\ inv[p].seen # docBefore

(***************************************************************************)
(* C19  cat's byte limit: with maxBytes > 0 the buffer never holds more    *)
(* than maxBytes bytes; a call of appendLimited on a full buffer appends   *)
(* nothing, and after a call that returned false there is no other; the    *)
(* text docsPlainText returns is the first min(maxBytes, total) bytes of   *)
(* the text it returns with no limit, and all of it for maxBytes <= 0.     *)
(***************************************************************************)
Min(a, b) == IF a <= b THEN a ELSE b

CatReturned == ~cat.more \/ cat.todo = <<>>

C19_ByteLimit ==
    /\ cat.maxBytes > 0 => Len(cat.buf) <= cat.maxBytes
    /\ IsPrefix(cat.buf, cat.text)
    /\ ~cat.more =>
           \A str \in RunContents \cup {<<NL>>, <<"\t">>} :
               appendLimited(cat.buf, cat.maxBytes, str) = [buf |-> cat.buf, ok |-> FALSE]
    /\ CatReturned =>
           cat.buf = IF cat.maxBytes > 0
                     THEN Take(cat.text, Min(cat.maxBytes, Len(cat.text)))
                     ELSE cat.text

C19_Witness ==
    /\ ~cat.more
    /\ cat.maxBytes > 0
    /\ Len(cat.text) > cat.maxBytes
    /\ Len(cat.buf) = cat.maxBytes
    /\ cat.buf[Len(cat.buf)] = "C3"
    /\ \E k \in 1..Len(cat.buf) : cat.buf[k] = "\t"

(***************************************************************************)
(* C21  append's insertion index is a valid insertion position of the      *)
(* document its get returned: at least 1 and at most endOfDoc - 1, that    *)
(* is, before the final newline, which so stays the last character.        *)
(***************************************************************************)
C21_AppendIndexValid ==
    (cmd = "append" /\ Len(calls) >= 1 /\ calls[1].outcome = "ok") =>
        /\ startIdx >= 1
        /\ startIdx <= EndOfDoc(docBefore) - 1
        /\ \A k \in InsertCalls :
               /\ calls[k].requests[1].start >= 1
               /\ calls[k].requests[1].start <= EndOfDoc(docBefore) - 1

(***************************************************************************)
(* C22  The inline scan ends on every line: an iteration either is the     *)
(* last or shortens the text still to scan.  It removes the delimiters of  *)
(* matched pairs only: the UTF-16 length of the plain text is that of the  *)
(* line's text less 4 for each bold range and 2 for each italic range.     *)
(* The running offset is the UTF-16 length of the plain text so far        *)
(* whenever a range start is taken from it.                                *)
(***************************************************************************)
BoldCount(st) == Cardinality({k \in 1..Len(st.ranges) : st.ranges[k].bold})
ItalicCount(st) == Cardinality({k \in 1..Len(st.ranges) : st.ranges[k].italic})

\* What the scan has taken off the line so far and what it has put out.
Accounted(st) ==
    Len(UnitsOf(st.cleanText)) + Len(UnitsOf(st.tempText))
        + 4 * BoldCount(st) + 2 * ItalicCount(st)

C22_Step ==
    /\ ~scan.done
    /\ scan'.done \/ Len(scan'.tempText) < Len(scan.tempText)
    /\ scan.currentOffset = Len(UnitsOf(scan.cleanText))
    /\ ~scan'.done => scan'.currentOffset = Len(UnitsOf(scan'.cleanText))
    /\ \A k \in (Len(scan.ranges) + 1)..Len(scan'.ranges) :
           scan'.ranges[k].start =
               scan.currentOffset + Len(UnitsOf(BeforeMark(scan.tempText)))
    /\ ~scan'.done => Accounted(scan') = Len(UnitsOf(line))
    /\ scan'.done =>
           Len(UnitsOf(scan'.cleanText)) =
               Len(UnitsOf(line)) - 4 * BoldCount(scan') - 2 * ItalicCount(scan')

C22_ScanTerminates == [][C22_Step]_vars /\ <>scan.done

C22_Witness ==
    /\ scan.done
    /\ BoldCount(scan) = 2
    /\ ItalicCount(scan) = 1
    /\ \E k \in 1..Len(line) : line[k] = Emoji
    /\ Len(UnitsOf(scan.cleanText)) = Len(UnitsOf(line)) - 10

=============================================================================
